---- MODULE Spec2Model ----
(***************************************************************************)
(* Model of the model abstraction and factory layer of the tkinter AI GUI  *)
(* (ai_models.py, base_classes.py): ModelFactory, TextClassificationModel, *)
(* ImageClassificationModel, the two decorators and the two mixins.        *)
(*                                                                         *)
(* Python values are modelled as follows.                                  *)
(*   str      : [type |-> "str", s |-> <<"a", "b">>] (sequence of          *)
(*              one-character strings); None : PyNone.                     *)
(*   dict     : a record with the same keys.                               *)
(*   list     : a sequence.                                                *)
(*   float    : an integer number of hundredths (0.95 is 95).              *)
(*   object   : a record of its attributes, held in the sequence           *)
(*              instances; a reference is an index into it.                *)
(*   messages : a sequence of string pieces, one per f-string part; a      *)
(*              model name is held the same way (its characters when it    *)
(*              was assigned through the model_name setter).               *)
(* print() is console logging and is taken to be total.  The outer world   *)
(* (transformers.pipeline, time.sleep, PIL.Image.open, the real pipeline   *)
(* call) is an environment record env that says which external step raises *)
(* and what the real responder returns.                                    *)
(***************************************************************************)
EXTENDS Integers, Sequences, FiniteSets, TLC

\* ------------------------------------------------------------------ bounds
MaxObjects == 1        \* model objects created in Spec (the life of one object)
MaxInstances == 2      \* model objects created in SpecFactory
MaxLabels == 6         \* longest ranked list a real responder returns

\* ------------------------------------------------------ program constants
DefaultMaxLength == 1000   \* validate_text_length(text, max_length=1000)

\* --------------------------------------------------------- python strings
PyNone == [type |-> "NoneType", s |-> <<>>]

Str(chars) == [type |-> "str", s |-> chars]

\* bool(value): None and the empty string are falsy
Truthy(v) == v.type = "str" /\ Len(v.s) > 0

\* characters removed by str.strip()
Whitespace == {" ", "\t", "\n", "\r"}

UpperCase == <<"A","B","C","D","E","F","G","H","I","J","K","L","M",
               "N","O","P","Q","R","S","T","U","V","W","X","Y","Z">>

LowerCase == <<"a","b","c","d","e","f","g","h","i","j","k","l","m",
               "n","o","p","q","r","s","t","u","v","w","x","y","z">>

LowerChar(c) ==
  IF \E i \in 1..26 : UpperCase[i] = c
  THEN LowerCase[CHOOSE i \in 1..26 : UpperCase[i] = c]
  ELSE c

\* str.lower()
lower(s) == [i \in 1..Len(s) |-> LowerChar(s[i])]

\* str.replace(old, new) for a one-character old
replace(s, old, new) == [i \in 1..Len(s) |-> IF s[i] = old THEN new ELSE s[i]]

\* str.strip()
strip(s) ==
  IF \A i \in 1..Len(s) : s[i] \in Whitespace THEN <<>>
  ELSE LET lo == CHOOSE i \in 1..Len(s) :
                   s[i] \notin Whitespace /\ \A j \in 1..(i - 1) : s[j] \in Whitespace
           hi == CHOOSE i \in 1..Len(s) :
                   s[i] \notin Whitespace /\ \A j \in (i + 1)..Len(s) : s[j] \in Whitespace
       IN SubSeq(s, lo, hi)

\* sub in s
Contains(s, sub) ==
  \E i \in 0..(Len(s) - Len(sub)) : SubSeq(s, i + 1, i + Len(sub)) = sub

\* s.endswith(suffix)
endswith(s, suffix) ==
  /\ Len(suffix) <= Len(s)
  /\ SubSeq(s, Len(s) - Len(suffix) + 1, Len(s)) = suffix

\* os.path.basename(path) (posix): what follows the last "/"
basename(s) ==
  LET slashes == {i \in 1..Len(s) : s[i] = "/"}
  IN IF slashes = {} THEN s
     ELSE SubSeq(s, (CHOOSE i \in slashes : \A j \in slashes : j <= i) + 1, Len(s))

\* str(value)
str(v) == IF v.type = "NoneType" THEN <<"N","o","n","e">> ELSE v.s

\* ------------------------------------------------------------ environment
\* One record per call: which external step raises an Exception, and how
\* many ranked labels the real responder returns.
\*   sleep     : the simulated acquisition step of load_model (time.sleep)
\*   ctor      : transformers.pipeline(...) constructing the real responder
\*   open      : PIL.Image.open in process_input
\*   info      : PIL.Image.open inside get_image_info
\*   responder : the call of the real pipeline
Outcomes == {"ok", "raise"}

LoadEnvs == [sleep : Outcomes, ctor : Outcomes]

\* lengths of the real responder's list: empty, exactly five, the longest
LabelCounts == {0, 5, MaxLabels}

\* get_image_info is only reached when Image.open in process_input succeeded
OpenCases ==
  { [open |-> "ok", info |-> "ok"], [open |-> "ok", info |-> "raise"],
    [open |-> "raise", info |-> "ok"] }

\* the real responder raises, or returns a ranked list of n labels
ResponderCases ==
  {[responder |-> "raise", n |-> 0]} \cup {[responder |-> "ok", n |-> k] : k \in LabelCounts}

ProcessEnvs ==
  { [open |-> o.open, info |-> o.info, responder |-> r.responder, n |-> r.n] :
      o \in OpenCases, r \in ResponderCases }

AllOk == [open |-> "ok", info |-> "ok", responder |-> "ok", n |-> 5]

\* ---------------------------------------------------- results of a method
\* self: the object after the call; raised: the exception class that left
\* the method ("None" when it returned); value: the returned value;
\* trace: the helpers and external steps the call invoked, in order;
\* caught: the message of the exception the method's own except clause
\* caught (empty when none); printed: what load_model printed about its
\* outcome.
Return(self, value, trace) ==
  [self |-> self, raised |-> "None", message |-> <<>>, value |-> value,
   trace |-> trace, caught |-> <<>>, printed |-> ""]

Raise(self, exc, message, trace) ==
  [self |-> self, raised |-> exc, message |-> message, value |-> PyNone,
   trace |-> trace, caught |-> <<>>, printed |-> ""]

\* ---------------------------------------------------------- decorators
\* performance_monitor only times the call and prints; the result passes
\* through.
performance_monitor(r) == r

\* validate_input: a falsy FIRST POSITIONAL argument raises ValueError; the
\* wrapped function runs otherwise (also when the argument is passed by
\* keyword, where args is empty).
validate_input(self, call, r) ==
  IF Len(call.args) > 0 /\ ~Truthy(call.args[1])
  THEN Raise(self, "ValueError", <<"Input cannot be empty">>, <<>>)
  ELSE r

\* the value bound to the method's parameter
Param(call) == IF Len(call.args) > 0 THEN call.args[1] ELSE call.kwargs[1]

Positional(v) == [args |-> <<v>>, kwargs |-> <<>>]

Keyword(v) == [args |-> <<>>, kwargs |-> <<v>>]

\* -------------------------------------------------------------- AIModelBase
\* mutant: the loaded flag starts out set
AIModelBase_StartsLoaded(cls, model_name, category) ==
  [class |-> cls, _model_name |-> model_name, _category |-> category,
   _is_loaded |-> TRUE, _model |-> "None", _pipeline |-> "None"]

\* __init__ of the base class and of the variant (self._pipeline = None)
AIModelBase(cls, model_name, category) ==
  [class |-> cls, _model_name |-> model_name, _category |-> category,
   _is_loaded |-> FALSE, _model |-> "None", _pipeline |-> "None"]

\* the model_name setter: a value that is not a str, or is blank, raises
set_model_name(self, value) ==
  IF value.type # "str" \/ strip(value.s) = <<>>
  THEN Raise(self, "ValueError", <<"Model name must be a non-empty string">>, <<>>)
  ELSE Return([self EXCEPT !._model_name = value.s], PyNone, <<>>)

\* mutant: the status is read off the installed responder, not the flag
BaseModelInfo_StatusFromPipeline(self) ==
  [name |-> self._model_name, category |-> self._category,
   status |-> IF self._pipeline # "None" THEN "Loaded" ELSE "Not Loaded"]

BaseModelInfo(self) ==
  [name |-> self._model_name, category |-> self._category,
   status |-> IF self._is_loaded THEN "Loaded" ELSE "Not Loaded"]

\* ------------------------------------------------------ TextProcessorMixin
\* mutant: tabs are left in the text
clean_text_KeepsTabs(text) ==
  IF text.type # "str" THEN str(text)
  ELSE replace(strip(text.s), "\n", " ")

clean_text(text) ==
  IF text.type # "str" THEN str(text)
  ELSE replace(replace(strip(text.s), "\n", " "), "\t", " ")

\* mutant: a text of exactly max_length characters is rejected
validate_text_length_Strict(text, max_length) == Len(text) < max_length

validate_text_length(text, max_length) == Len(text) <= max_length

\* ----------------------------------------------------- ImageProcessorMixin
valid_formats == << <<".","j","p","g">>, <<".","j","p","e","g">>, <<".","p","n","g">>,
                    <<".","b","m","p">>, <<".","g","i","f">> >>

\* mutant: the path is compared as written, without lower()
validate_image_format_CaseSensitive(image_path) ==
  \E k \in 1..Len(valid_formats) : endswith(image_path, valid_formats[k])

validate_image_format(image_path) ==
  \E k \in 1..Len(valid_formats) : endswith(lower(image_path), valid_formats[k])

OpenErrorMessage == <<"[Errno 2] No such file or directory">>

\* the metadata of an image that opens (one sample image)
get_image_info(env) ==
  IF env.info = "raise" THEN [error |-> OpenErrorMessage]
  ELSE [format |-> "PNG", mode |-> "RGB", size |-> <<640, 480>>]

\* ------------------------------------------------------------- responders
MockSentiment == "mock_sentiment_pipeline"

MockImage == "mock_image_pipeline"

RealSentiment == "Pipeline(sentiment-analysis)"

RealImage == "Pipeline(image-classification)"

ResponderErrorMessage == <<"responder failed">>

NotCallableMessage == <<"'NoneType' object is not callable">>

\* isinstance(p, str): only the mock pipelines are strings
isinstance_str(p) == p \in {MockSentiment, MockImage}

\* the ranked list of n labels a real responder returns, best first
RealLabels == <<"L1", "L2", "L3", "L4", "L5", "L6", "L7", "L8">>

RealResults(n) == [k \in 1..n |-> [label |-> RealLabels[k], score |-> 100 - k]]

\* -------------------------------------------------- TextClassificationModel
TextClassificationModel ==
  AIModelBase("TextClassificationModel",
              <<"distilbert-base-uncased-finetuned-sst-2-english">>, "Text Classification")

\* mutant: the except clause is missing and the exception leaves process_input
ProcessingFailed_Propagates(self, message, trace) ==
  Raise(self, "Exception", message, trace)

\* mutant: the except clause also marks the model as not loaded
ProcessingFailed_Unloads(self, message, trace) ==
  [Return([self EXCEPT !._is_loaded = FALSE],
          [error |-> <<"Processing failed: ">> \o message], trace)
     EXCEPT !.caught = message]

\* except Exception as e: return {"error": f"Processing failed: {str(e)}"}
ProcessingFailed(self, message, trace) ==
  [Return(self, [error |-> <<"Processing failed: ">> \o message], trace)
     EXCEPT !.caught = message]

\* mutant: no inner try, a failing pipeline(...) reaches the outer handler
TextLoadModel_NoFallback(self, env) ==
  performance_monitor(
    IF env.sleep = "raise" \/ env.ctor = "raise"
    THEN [Return([self EXCEPT !._is_loaded = FALSE], PyNone, <<"time.sleep">>)
            EXCEPT !.printed = "Error loading model", !.caught = <<"load failed">>]
    ELSE [Return([self EXCEPT !._pipeline = RealSentiment, !._is_loaded = TRUE], PyNone,
                 <<"time.sleep", "pipeline">>)
            EXCEPT !.printed = "Successfully loaded"])

TextLoadModel(self, env) ==
  performance_monitor(
    IF env.sleep = "raise"
    THEN [Return([self EXCEPT !._is_loaded = FALSE], PyNone, <<"time.sleep">>)
            EXCEPT !.printed = "Error loading model", !.caught = <<"sleep failed">>]
    ELSE LET p == IF env.ctor = "raise" THEN MockSentiment ELSE RealSentiment
         IN [Return([self EXCEPT !._pipeline = p, !._is_loaded = TRUE], PyNone,
                    <<"time.sleep", "pipeline">>)
               EXCEPT !.printed = "Successfully loaded"])

\* mutant: the words are looked for as written, without lower()
MockSentimentResults_CaseSensitive(cleaned_text) ==
  << [label |-> IF \/ Contains(cleaned_text, <<"g","o","o","d">>)
                   \/ Contains(cleaned_text, <<"g","r","e","a","t">>)
                THEN "POSITIVE" ELSE "NEGATIVE",
      score |-> 95] >>

\* the mock sentiment of a cleaned text (lines 67-68)
MockSentimentResults(cleaned_text) ==
  << [label |-> IF \/ Contains(lower(cleaned_text), <<"g","o","o","d">>)
                   \/ Contains(lower(cleaned_text), <<"g","r","e","a","t">>)
                THEN "POSITIVE" ELSE "NEGATIVE",
      score |-> 95] >>

\* the dict process_input returns on success (lines 72-76)
TextResult(self, cleaned_text, results) ==
  [input |-> cleaned_text, results |-> results, model_used |-> self._model_name]

\* the try block of process_input (lines 57-78)
TextProcessTry(self, input_text, env) ==
  LET cleaned_text == clean_text(input_text)
      t2 == <<"clean_text", "validate_text_length">>
  IN IF ~validate_text_length(cleaned_text, DefaultMaxLength)
     THEN Return(self, [error |-> <<"Text too long (max 1000 characters)">>], t2)
     ELSE IF isinstance_str(self._pipeline) /\ self._pipeline = MockSentiment
     THEN Return(self, TextResult(self, cleaned_text, MockSentimentResults(cleaned_text)),
                 t2 \o <<"mock">>)
     ELSE IF self._pipeline = "None"
     THEN ProcessingFailed(self, NotCallableMessage, t2)
     ELSE IF env.responder = "raise"
     THEN ProcessingFailed(self, ResponderErrorMessage, t2 \o <<"responder">>)
     ELSE Return(self, TextResult(self, cleaned_text, RealResults(env.n)),
                 t2 \o <<"responder">>)

\* mutant: the load-state check is missing
TextProcessBody_NoLoadCheck(self, input_text, env) ==
  TextProcessTry(self, input_text, env)

TextProcessBody(self, input_text, env) ==
  IF ~self._is_loaded
  THEN Return(self, [error |-> <<"Model not loaded">>], <<>>)
  ELSE TextProcessTry(self, input_text, env)

TextProcessInput(self, call, env) ==
  validate_input(self, call, performance_monitor(TextProcessBody(self, Param(call), env)))

TextGetModelInfo(self) ==
  LET base_info == performance_monitor(BaseModelInfo(self))
  IN [name |-> base_info.name, category |-> base_info.category,
      status |-> base_info.status,
      description |-> "DistilBERT sentiment analysis model",
      input_type |-> "Text",
      output_type |-> "Sentiment classification (POSITIVE/NEGATIVE)",
      use_case |-> "Analyze sentiment of text input, reviews, comments"]

\* ------------------------------------------------- ImageClassificationModel
ImageClassificationModel ==
  AIModelBase("ImageClassificationModel", <<"google/vit-base-patch16-224">>,
              "Image Classification")

\* mutant: load_model first drops the old pipeline, and the outer handler
\* forgets to clear the flag
ImageLoadModel_KeepsFlag(self, env) ==
  performance_monitor(
    IF env.sleep = "raise"
    THEN [Return([self EXCEPT !._pipeline = "None"], PyNone, <<"time.sleep">>)
            EXCEPT !.printed = "Error loading model", !.caught = <<"sleep failed">>]
    ELSE LET p == IF env.ctor = "raise" THEN MockImage ELSE RealImage
         IN [Return([self EXCEPT !._pipeline = p, !._is_loaded = TRUE], PyNone,
                    <<"time.sleep", "pipeline">>)
               EXCEPT !.printed = "Successfully loaded"])

\* mutant: a successful load files the object under its pipeline task
ImageLoadModel_Recategorises(self, env) ==
  performance_monitor(
    IF env.sleep = "raise"
    THEN [Return([self EXCEPT !._is_loaded = FALSE], PyNone, <<"time.sleep">>)
            EXCEPT !.printed = "Error loading model", !.caught = <<"sleep failed">>]
    ELSE LET p == IF env.ctor = "raise" THEN MockImage ELSE RealImage
         IN [Return([self EXCEPT !._pipeline = p, !._is_loaded = TRUE,
                                 !._category = "image-classification"], PyNone,
                    <<"time.sleep", "pipeline">>)
               EXCEPT !.printed = "Successfully loaded"])

ImageLoadModel(self, env) ==
  performance_monitor(
    IF env.sleep = "raise"
    THEN [Return([self EXCEPT !._is_loaded = FALSE], PyNone, <<"time.sleep">>)
            EXCEPT !.printed = "Error loading model", !.caught = <<"sleep failed">>]
    ELSE LET p == IF env.ctor = "raise" THEN MockImage ELSE RealImage
         IN [Return([self EXCEPT !._pipeline = p, !._is_loaded = TRUE], PyNone,
                    <<"time.sleep", "pipeline">>)
               EXCEPT !.printed = "Successfully loaded"])

\* mutant: the last five labels are kept
Top5_LastFive(results) ==
  SubSeq(results, IF Len(results) < 5 THEN 1 ELSE Len(results) - 4, Len(results))

\* results[:5]
Top5(results) == SubSeq(results, 1, IF Len(results) < 5 THEN Len(results) ELSE 5)

\* mutant: the whole path is searched, not the file name
MockImageResults_WholePath(image_path) ==
  LET filename == lower(image_path)
  IN IF Contains(filename, <<"c","a","t">>)
     THEN << [label |-> "tabby cat", score |-> 85], [label |-> "domestic cat", score |-> 12] >>
     ELSE IF Contains(filename, <<"d","o","g">>)
     THEN << [label |-> "golden retriever", score |-> 78], [label |-> "labrador", score |-> 15] >>
     ELSE << [label |-> "object", score |-> 65], [label |-> "item", score |-> 25],
             [label |-> "thing", score |-> 10] >>

MockImageResults(image_path) ==
  LET filename == lower(basename(image_path))
  IN IF Contains(filename, <<"c","a","t">>)
     THEN << [label |-> "tabby cat", score |-> 85], [label |-> "domestic cat", score |-> 12] >>
     ELSE IF Contains(filename, <<"d","o","g">>)
     THEN << [label |-> "golden retriever", score |-> 78], [label |-> "labrador", score |-> 15] >>
     ELSE << [label |-> "object", score |-> 65], [label |-> "item", score |-> 25],
             [label |-> "thing", score |-> 10] >>

\* mutant: the result names the class of the model, not the model
ImageResult_NamesClass(self, image_info, results) ==
  [image_info |-> image_info, results |-> Top5(results), model_used |-> <<self.class>>]

\* the dict process_input returns on success (lines 164-168)
ImageResult(self, image_info, results) ==
  [image_info |-> image_info, results |-> Top5(results), model_used |-> self._model_name]

\* the try block of process_input (lines 135-170)
ImageProcessTry(self, image_path, env) ==
  IF image_path.type # "str"
  THEN ProcessingFailed(self, <<"'NoneType' object has no attribute 'lower'">>,
                        <<"validate_image_format">>)
  ELSE IF ~validate_image_format(image_path.s)
  THEN Return(self, [error |-> <<"Invalid image format">>], <<"validate_image_format">>)
  ELSE IF env.open = "raise"
  THEN ProcessingFailed(self, OpenErrorMessage, <<"validate_image_format", "Image.open">>)
  ELSE
    LET image_info == get_image_info(env)
        t3 == <<"validate_image_format", "Image.open", "get_image_info">>
    IN IF isinstance_str(self._pipeline) /\ self._pipeline = MockImage
       THEN Return(self, ImageResult(self, image_info, MockImageResults(image_path.s)),
                   t3 \o <<"mock">>)
       ELSE IF self._pipeline = "None"
       THEN ProcessingFailed(self, NotCallableMessage, t3)
       ELSE IF env.responder = "raise"
       THEN ProcessingFailed(self, ResponderErrorMessage, t3 \o <<"responder">>)
       ELSE Return(self, ImageResult(self, image_info, RealResults(env.n)),
                   t3 \o <<"responder">>)

\* mutant: the image format is validated before the load state is checked
ImageProcessBody_ValidatesFirst(self, image_path, env) ==
  IF image_path.type = "str" /\ ~validate_image_format(image_path.s)
  THEN Return(self, [error |-> <<"Invalid image format">>], <<"validate_image_format">>)
  ELSE IF ~self._is_loaded
  THEN Return(self, [error |-> <<"Model not loaded">>], <<>>)
  ELSE ImageProcessTry(self, image_path, env)

ImageProcessBody(self, image_path, env) ==
  IF ~self._is_loaded
  THEN Return(self, [error |-> <<"Model not loaded">>], <<>>)
  ELSE ImageProcessTry(self, image_path, env)

ImageProcessInput(self, call, env) ==
  validate_input(self, call, performance_monitor(ImageProcessBody(self, Param(call), env)))

ImageGetModelInfo(self) ==
  LET base_info == performance_monitor(BaseModelInfo(self))
  IN [name |-> base_info.name, category |-> base_info.category,
      status |-> base_info.status,
      description |-> "Vision Transformer for image classification",
      input_type |-> "Image (JPG, PNG, BMP, GIF)",
      output_type |-> "Object classification with confidence scores",
      use_case |-> "Identify objects, animals, scenes in images"]

\* -------------------------------------------------- polymorphic dispatch
load_model(self, env) ==
  IF self.class = "TextClassificationModel" THEN TextLoadModel(self, env)
  ELSE ImageLoadModel(self, env)

process_input(self, call, env) ==
  IF self.class = "TextClassificationModel" THEN TextProcessInput(self, call, env)
  ELSE ImageProcessInput(self, call, env)

get_model_info(self) ==
  IF self.class = "TextClassificationModel" THEN TextGetModelInfo(self)
  ELSE ImageGetModelInfo(self)

\* ------------------------------------------------------------ ModelFactory
\* the class attribute _models: a dict, kept in insertion order
ModelRegistry ==
  << [key |-> "Text-to-Image", class |-> "TextClassificationModel"],
     [key |-> "Image Classification", class |-> "ImageClassificationModel"] >>

\* key in d
HasKey(d, key) == \E k \in 1..Len(d) : d[k].key = key

\* d[key]
Lookup(d, key) == d[CHOOSE k \in 1..Len(d) : d[k].key = key].class

\* cls(): the constructor of the class named cls
Construct(cls) ==
  IF cls = "TextClassificationModel" THEN TextClassificationModel
  ELSE ImageClassificationModel

\* mutant: an unknown identifier falls back to the first registered class
create_model_Default(d, heap, model_type) ==
  LET cls == IF HasKey(d, model_type) THEN Lookup(d, model_type) ELSE d[1].class
  IN [d |-> d, heap |-> Append(heap, Construct(cls)),
      raised |-> "None", message |-> <<>>, ref |-> Len(heap) + 1]

\* mutant: the factory keeps one object per class and hands it out again
create_model_Cached(d, heap, model_type) ==
  IF ~HasKey(d, model_type)
  THEN [d |-> d, heap |-> heap, raised |-> "ValueError",
        message |-> <<"Unknown model type: ", model_type>>, ref |-> 0]
  ELSE IF \E k \in 1..Len(heap) : heap[k].class = Lookup(d, model_type)
  THEN [d |-> d, heap |-> heap, raised |-> "None", message |-> <<>>,
        ref |-> CHOOSE k \in 1..Len(heap) : heap[k].class = Lookup(d, model_type)]
  ELSE [d |-> d, heap |-> Append(heap, Construct(Lookup(d, model_type))),
        raised |-> "None", message |-> <<>>, ref |-> Len(heap) + 1]

\* create_model on the registry d and the heap of model objects; ref is
\* the reference returned (0 when the call raised)
create_model(d, heap, model_type) ==
  IF ~HasKey(d, model_type)
  THEN [d |-> d, heap |-> heap, raised |-> "ValueError",
        message |-> <<"Unknown model type: ", model_type>>, ref |-> 0]
  ELSE [d |-> d, heap |-> Append(heap, Construct(Lookup(d, model_type))),
        raised |-> "None", message |-> <<>>, ref |-> Len(heap) + 1]

\* A python list or dict view: its items, and the dict whose storage it
\* shares ("None" for a list, which owns its items).
\* d.keys(): a live view of the keys of the dict named owner
keys(d, owner) == [items |-> [k \in 1..Len(d) |-> d[k].key], shares |-> owner]

\* list(iterable): a new list holding the items of the iterable
list(iterable) == [items |-> iterable.items, shares |-> "None"]

\* the caller removes the first item of a sequence it was handed; the dict
\* d loses the entry too when the sequence shares the dict's storage
RemoveFirst(d, v) ==
  [d |-> IF v.shares = "_models" THEN Tail(d) ELSE d,
   v |-> [v EXCEPT !.items = Tail(@)]]

\* mutant: the registry's own key view is handed out
get_available_models_View(d) == keys(d, "_models")

\* list(cls._models.keys())
get_available_models(d) == list(keys(d, "_models"))

\* ------------------------------------------------------------------ inputs
Identifiers == {"Text-to-Image", "Image Classification", "nonexistent", "Text Classification"}

Inputs ==
  { PyNone,
    Str(<<>>),
    Str(<<"s","o"," ","G","o","o","d">>),
    Str(<<"d","o","g",".","P","N","G">>),
    Str(<<"n","o","t","e","s",".","t","x","t">>) }

Calls == {Positional(v) : v \in Inputs} \cup {Keyword(v) : v \in Inputs}

\* values assigned to model_name: a name, a blank string, None
NameInputs == {Str(<<"v","2">>), Str(<<" ">>), PyNone}

\* c repeated n times
Repeat(c, n) == [k \in 1..n |-> c]

\* texts about the length limit: lead spaces, then body letters, then trail
\* newlines; cleaning leaves the body
LongText(lead, body, trail) ==
  Str(Repeat(" ", lead) \o Repeat("a", body) \o Repeat("\n", trail))

LongTexts ==
  { LongText(lead, DefaultMaxLength + over, trail) :
      lead \in 0..1, over \in 0..1, trail \in 0..1 }

LengthCalls ==
  {Positional(v) : v \in LongTexts \cup {Str(<<>>), Str(<<" ">>), Str(<<"o","k">>)}}
    \cup {Keyword(v) : v \in LongTexts \cup {Str(<<>>)}}

\* texts: whitespace, then a word, then whitespace; the words of
\* PositiveWords hold "good" or "great" in some letter case, the words of
\* OtherWords do not (in one a newline, in one a tab splits the word)
LeadPads == {<<>>, <<" ","\n">>, <<"\t">>}

TrailPads == {<<>>, <<"\n">>, <<"\r"," ">>}

PositiveWords ==
  { <<"g","o","o","d">>, <<"G","R","E","A","T">>, <<"n","o","\t","G","o","O","d","s">> }

OtherWords ==
  { <<"g","o","\n","o","d">>, <<"b","a","d">>, <<"g","r","e","e","t">>, <<>>,
    <<"g","r","e","\t","a","t">>, <<"a","\r","b">> }

Texts ==
  { Str(lead \o word \o trail) :
      lead \in LeadPads, word \in PositiveWords \cup OtherWords, trail \in TrailPads }

TextCalls ==
  {Positional(v) : v \in Texts}
    \cup {Keyword(v) : v \in {Str(<<>>), PyNone, Str(<<"\t","G","R","E","A","T","\n">>)}}

\* the responder answers, or raises
TextEnvs == {AllOk, [AllOk EXCEPT !.responder = "raise"]}

\* image paths: a file name made of a stem and an ending, some in a
\* directory whose name holds "cat"
Stems ==
  { <<"d","o","g">>, <<"D","o","G">>, <<"C","a","t">>, <<"c","a","t","d","o","g">>,
    <<"d","o","g","c","a","t">>, <<"p","i","c">>, <<"d","o","_","g">> }

AllowedEndings ==
  { <<".","j","p","g">>, <<".","J","P","E","G">>, <<".","P","n","g">>,
    <<".","b","m","p">>, <<".","G","I","F">> }

OtherEndings ==
  { <<".","t","x","t">>, <<>>, <<"p","n","g">>, <<".","p","n","g",".","b","a","k">>,
    <<".","j","p","e">>, <<".","p","n","g","/">>, <<".","g","i","f"," ">> }

Directory == <<"c","a","t","s","/">>

FileNames == {stem \o ending : stem \in Stems, ending \in AllowedEndings \cup OtherEndings}

ImagePaths ==
  {Str(f) : f \in FileNames}
    \cup {Str(Directory \o stem \o <<".","P","n","g">>) : stem \in Stems}

ImageCalls ==
  {Positional(v) : v \in ImagePaths \cup {Str(<<>>)}}
    \cup {Keyword(v) : v \in {Str(<<>>), PyNone, Str(<<"d","o","g",".","t","x","t">>)}}

\* the resource opens or not, the responder answers or raises
ImageEnvs ==
  { [open |-> o.open, info |-> o.info, responder |-> "ok", n |-> 5] : o \in OpenCases }
    \cup {[AllOk EXCEPT !.responder = "raise"]}

\* calls and environments about the length of the ranked list: the
\* responder returns every number of labels up to MaxLabels, or raises
RankCalls ==
  { Positional(Str(<<"d","o","g",".","P","N","G">>)),
    Keyword(Str(<<"p","i","c",".","j","p","g">>)),
    Positional(Str(<<"C","a","t",".","g","i","f">>)),
    Positional(Str(<<"n","o","t","e","s",".","t","x","t">>)),
    Positional(Str(<<"d","o","g","c","a","t",".","b","m","p">>)),
    Positional(Str(<<>>)),
    Keyword(PyNone) }

RankEnvs ==
  { [open |-> "ok", info |-> i, responder |-> "ok", n |-> k] :
      i \in Outcomes, k \in 0..MaxLabels }
    \cup {[AllOk EXCEPT !.responder = "raise"], [AllOk EXCEPT !.open = "raise"]}

\* the one call and environment SpecFactory uses
FactoryCalls == {Positional(Str(<<"d","o","g",".","P","N","G">>))}

FactoryEnvs == {AllOk}

\* ------------------------------------------------------------------- state
VARIABLES
  _models,     \* ModelFactory._models
  instances,   \* the model objects created so far, by reference
  console,     \* per object, the outcome message its last load_model printed
  last,        \* the last call: operation, receiver, argument and outcome
  \* the window (gui_components.py, main_application.py)
  _selected_model,   \* ModelSelectionPanel._selected_model
  _load_button,      \* state and text of the Load button
  _current_model,    \* MainApplication._current_model (0 is None)
  threads,           \* the load workers started so far, each with its position
  after_queue,       \* callbacks handed to the main loop with after(...)
  dialogs,           \* open "Success" boxes, innermost last, each with the
                     \* worker and model its suspended handler holds
  messagebox,        \* the box shown last
  _input,            \* input type, text entry and selected file
  _output_text,      \* what the output panel displays (empty, or one dict)
  _info_panel        \* the model info the information panel displays

model == <<_models, instances, console, last>>

gui == <<_selected_model, _load_button, _current_model, threads, after_queue, dialogs,
         messagebox, _input, _output_text, _info_panel>>

vars == <<_models, instances, console, last, _selected_model, _load_button,
          _current_model, threads, after_queue, dialogs, messagebox, _input, _output_text,
          _info_panel>>

Refs == 1..Len(instances)

\* The three-valued load state of a model object.  The code keeps one
\* flag, _is_loaded; a failed load is told from a load never attempted by
\* what load_model printed last about the object.
LoadStateOf(self, printed) ==
  IF self._is_loaded THEN "Loaded"
  ELSE IF printed = "Error loading model" THEN "FailedToLoad"
  ELSE "NotLoaded"

LoadState(i) == LoadStateOf(instances[i], console[i])

NoCall == [op |-> "none", self |-> 0, arg |-> PyNone, before |-> "", raised |-> "None",
           message |-> <<>>, value |-> PyNone, trace |-> <<>>, caught |-> <<>>]

\* a message box: messagebox.showinfo / showwarning / showerror(title, message)
Box(kind, title, message) == [kind |-> kind, title |-> title, message |-> message]

\* the box shown last: none yet
NoBox == Box("none", "", <<>>)

\* The window after MainApplication.__init__: the first registered
\* identifier is selected, the Load button is enabled, no model is current,
\* and the panel has asked the main loop to report the selection
\* (after(100, ...)).
WindowInit ==
  /\ _selected_model = get_available_models(ModelRegistry).items[1]
  /\ _load_button = [state |-> "normal", text |-> "Load Model"]
  /\ _current_model = 0
  /\ threads = <<>>
  /\ after_queue = << [kind |-> "_on_model_change", worker |-> 0, model |-> 0] >>
  /\ dialogs = <<>>
  /\ messagebox = NoBox
  /\ _input = [type |-> "Text", text |-> Str(<<>>), file_path |-> Str(<<>>)]
  /\ _output_text = <<>>
  /\ _info_panel = <<>>

Init ==
  /\ _models = ModelRegistry
  /\ instances = <<>>
  /\ console = <<>>
  /\ last = NoCall
  /\ WindowInit

\* model = ModelFactory.create_model(model_type), with room for max objects
CreateModel(model_type, max) ==
  \E r \in {create_model(_models, instances, model_type)} :
     /\ Len(r.heap) <= max
     /\ _models' = r.d
     /\ instances' = r.heap
     /\ console' = [k \in 1..Len(r.heap) |-> IF k <= Len(console) THEN console[k] ELSE ""]
     /\ last' = [op |-> "create_model", self |-> r.ref, arg |-> model_type, before |-> "",
                 raised |-> r.raised, message |-> r.message, value |-> PyNone,
                 trace |-> <<>>, caught |-> <<>>]
     /\ UNCHANGED gui

GetAvailableModels ==
  /\ last' = [op |-> "get_available_models", self |-> 0, arg |-> PyNone, before |-> "",
              raised |-> "None", message |-> <<>>,
              value |-> get_available_models(_models), trace |-> <<>>,
              caught |-> <<>>]
  /\ UNCHANGED <<_models, instances, console>>
  /\ UNCHANGED gui

\* the caller of get_available_models removes the first identifier from the
\* list it was handed
MutateList ==
  /\ last.op \in {"get_available_models", "list.pop"}
  /\ Len(last.value.items) > 0
  /\ \E r \in {RemoveFirst(_models, last.value)} :
        /\ _models' = r.d
        /\ last' = [last EXCEPT !.op = "list.pop", !.value = r.v]
  /\ UNCHANGED <<instances, console>>
  /\ UNCHANGED gui

\* instances[i].load_model() in environment env
LoadModel(i, env) ==
  \E r \in {load_model(instances[i], env)} :
     /\ instances' = [instances EXCEPT ![i] = r.self]
     /\ console' = [console EXCEPT ![i] = r.printed]
     /\ last' = [op |-> "load_model", self |-> i, arg |-> env, before |-> LoadState(i),
                 raised |-> r.raised, message |-> r.message, value |-> r.value,
                 trace |-> r.trace, caught |-> r.caught]
     /\ UNCHANGED _models
     /\ UNCHANGED gui

\* instances[i].process_input(...) in environment env
ProcessInput(i, call, env) ==
  \E r \in {process_input(instances[i], call, env)} :
     /\ instances' = [instances EXCEPT ![i] = r.self]
     /\ last' = [op |-> "process_input", self |-> i, arg |-> call, before |-> LoadState(i),
                 raised |-> r.raised, message |-> r.message, value |-> r.value,
                 trace |-> r.trace, caught |-> r.caught]
     /\ UNCHANGED <<_models, console>>
     /\ UNCHANGED gui

\* instances[i].model_name = value
SetModelName(i, value) ==
  \E r \in {set_model_name(instances[i], value)} :
     /\ instances' = [instances EXCEPT ![i] = r.self]
     /\ last' = [op |-> "model_name.setter", self |-> i, arg |-> value,
                 before |-> LoadState(i), raised |-> r.raised, message |-> r.message,
                 value |-> r.value, trace |-> r.trace, caught |-> r.caught]
     /\ UNCHANGED <<_models, console>>
     /\ UNCHANGED gui

GetModelInfo(i) ==
  /\ last' = [op |-> "get_model_info", self |-> i, arg |-> PyNone, before |-> LoadState(i),
              raised |-> "None", message |-> <<>>,
              value |-> get_model_info(instances[i]), trace |-> <<>>,
              caught |-> <<>>]
  /\ UNCHANGED <<_models, instances, console>>
  /\ UNCHANGED gui

\* The life of one model object, with every input and environment.
Next ==
  \/ \E model_type \in Identifiers : CreateModel(model_type, MaxObjects)
  \/ GetAvailableModels
  \/ \E i \in Refs, env \in LoadEnvs : LoadModel(i, env)
  \/ \E i \in Refs, call \in Calls, env \in ProcessEnvs : ProcessInput(i, call, env)
  \/ \E i \in Refs : GetModelInfo(i)

Spec == Init /\ [][Next]_vars

\* Several model objects side by side, with one input.
NextFactory ==
  \/ \E model_type \in Identifiers : CreateModel(model_type, MaxInstances)
  \/ GetAvailableModels
  \/ MutateList
  \/ \E i \in Refs, env \in LoadEnvs : LoadModel(i, env)
  \/ \E i \in Refs, call \in FactoryCalls, env \in FactoryEnvs : ProcessInput(i, call, env)
  \/ \E i \in Refs : GetModelInfo(i)

SpecFactory == Init /\ [][NextFactory]_vars

\* The descriptor of one model object: its name reassigned, its load state
\* changed, its description read.
NextInfo ==
  \/ \E model_type \in Identifiers : CreateModel(model_type, MaxObjects)
  \/ \E i \in Refs, env \in LoadEnvs : LoadModel(i, env)
  \/ \E i \in Refs, call \in FactoryCalls, env \in FactoryEnvs : ProcessInput(i, call, env)
  \/ \E i \in Refs, value \in NameInputs : SetModelName(i, value)
  \/ \E i \in Refs : GetModelInfo(i)

SpecInfo == Init /\ [][NextInfo]_vars

\* One text model, just constructed
InitText ==
  /\ _models = ModelRegistry
  /\ instances = <<TextClassificationModel>>
  /\ console = <<"">>
  /\ last = NoCall
  /\ WindowInit

\* One text model and texts about the length limit.
NextLength ==
  \/ \E i \in Refs, env \in LoadEnvs : LoadModel(i, env)
  \/ \E i \in Refs, call \in LengthCalls, env \in TextEnvs : ProcessInput(i, call, env)

SpecLength == InitText /\ [][NextLength]_vars

\* One text model and a family of short texts.
NextText ==
  \/ \E i \in Refs, env \in LoadEnvs : LoadModel(i, env)
  \/ \E i \in Refs, call \in TextCalls, env \in TextEnvs : ProcessInput(i, call, env)

SpecText == InitText /\ [][NextText]_vars

\* One image model, just constructed
InitImage ==
  /\ _models = ModelRegistry
  /\ instances = <<ImageClassificationModel>>
  /\ console = <<"">>
  /\ last = NoCall
  /\ WindowInit

\* One image model and a family of image paths.
NextImage ==
  \/ \E i \in Refs, env \in LoadEnvs : LoadModel(i, env)
  \/ \E i \in Refs, call \in ImageCalls, env \in ImageEnvs : ProcessInput(i, call, env)

SpecImage == InitImage /\ [][NextImage]_vars

\* One image model and responders returning lists of every length.
NextRank ==
  \/ \E i \in Refs, env \in LoadEnvs : LoadModel(i, env)
  \/ \E i \in Refs, call \in RankCalls, env \in RankEnvs : ProcessInput(i, call, env)

SpecRank == InitImage /\ [][NextRank]_vars

\* ------------------------------------------------------------- the window
\* gui_components.py and main_application.py: the model selection panel, the
\* input and output panels, and the application that owns the current model.

\* the most loads the window starts
MaxLoads == 2

\* the characters of a category literal
Chars(category) ==
  IF category = "Text Classification"
  THEN <<"T","e","x","t"," ","C","l","a","s","s","i","f","i","c","a","t","i","o","n">>
  ELSE <<"I","m","a","g","e"," ","C","l","a","s","s","i","f","i","c","a","t","i","o","n">>

\* what the user types into the text entry, and the files the user picks
TypedTexts == {Str(<<" ","g","o","o","d">>)}

BrowsedFiles == {Str(<<"d","o","g",".","P","N","G">>)}

\* the environment of a load worker: the two steps of load_model, and the
\* two calls that hand a callback to the main loop from the worker thread
\*   after   : winfo_toplevel() / root.after(...) in the try block
\*   handler : winfo_toplevel() / root.after(...) in the except clause
WorkerEnvs ==
  { [sleep |-> s, ctor |-> "ok", after |-> "ok", handler |-> "ok"] : s \in Outcomes }
    \cup { [sleep |-> "ok", ctor |-> "ok", after |-> "raise", handler |-> h] : h \in Outcomes }

\* the environments of a run
RunEnvs == {AllOk}

ReadyButton == [state |-> "normal", text |-> "Load Model"]

\* ModelSelectionPanel._on_model_selected: the button is enabled again, its
\* text is left alone
_on_model_selected(button) == [button EXCEPT !.state = "normal"]

\* MainApplication._on_model_type_selected: the info of a temporary object of
\* the selected type is displayed; a failure is printed and nothing changes
_on_model_type_selected(d, heap, info, model_type) ==
  LET temp_model == create_model(d, heap, model_type)
  IN IF temp_model.raised # "None" THEN info
     ELSE <<get_model_info(temp_model.heap[temp_model.ref])>>

\* ModelSelectionPanel._load_model: with a selected type, the button shows
\* "Loading..." and a worker thread is started
_load_model(selected, button, workers) ==
  IF selected # ""
  THEN [button |-> [state |-> "disabled", text |-> "Loading..."],
        threads |-> Append(workers, [model_type |-> selected, status |-> "started",
                                     model |-> 0])]
  ELSE [button |-> button, threads |-> workers]

\* load_thread, the body of worker w: create_model, load_model, and the
\* completion callback handed to the main loop; any exception on the way
\* hands over the error callback instead, and an exception in the except
\* clause ends the thread
load_thread(d, heap, w, model_type, env) ==
  LET created == create_model(d, heap, model_type)
      loaded == load_model(created.heap[created.ref], env)
      after_load == IF created.raised = "None"
                    THEN [created.heap EXCEPT ![created.ref] = loaded.self]
                    ELSE heap
  IN IF created.raised = "None" /\ env.after = "ok"
     THEN [heap |-> after_load, created |-> created,
           posted |-> <<[kind |-> "_on_load_complete", worker |-> w,
                         model |-> created.ref]>>,
           status |-> "posted"]
     ELSE IF env.handler = "ok"
     THEN [heap |-> after_load, created |-> created,
           posted |-> <<[kind |-> "_on_load_error", worker |-> w, model |-> 0]>>,
           status |-> "raised"]
     ELSE [heap |-> after_load, created |-> created, posted |-> <<>>, status |-> "died"]

\* ModelSelectionPanel._on_load_complete up to the box it opens
_on_load_complete(self) ==
  [button |-> ReadyButton,
   box |-> Box("showinfo", "Success",
               <<"Model ">> \o self._model_name \o <<" loaded successfully!">>)]

\* ModelSelectionPanel._on_load_error
_on_load_error(error_msg) ==
  [raised |-> "None", button |-> ReadyButton,
   shown |-> <<Box("showerror", "Error", <<"Failed to load model: ">> \o error_msg)>>]

\* the name e of "except Exception as e" once the except clause has ended:
\* Python unbinds it
ExceptTargetBound == FALSE

\* the callback the except clause posts, lambda: self._on_load_error(str(e)),
\* when the main loop runs it: str(e) is evaluated first
load_error_callback(button, error_msg) ==
  IF ExceptTargetBound THEN _on_load_error(error_msg)
  ELSE [raised |-> "NameError", button |-> button, shown |-> <<>>]

\* MainApplication._on_model_loaded
_on_model_loaded(heap, ref) ==
  [_current_model |-> ref, _info_panel |-> <<get_model_info(heap[ref])>>]

\* InputPanel._get_input_data: the dict handed on, or None after a warning
_get_input_data(inp) ==
  IF inp.type = "Text"
  THEN LET text == strip(inp.text.s \o <<"\n">>)
       IN IF text = <<>>
          THEN [value |-> PyNone,
                shown |-> <<Box("showwarning", "Warning", <<"Please enter some text">>)>>]
          ELSE [value |-> [type |-> "text", data |-> Str(text)], shown |-> <<>>]
  ELSE LET file_path == inp.file_path
       IN IF ~Truthy(file_path)
          THEN [value |-> PyNone,
                shown |-> <<Box("showwarning", "Warning",
                                <<"Please select an image file">>)>>]
          ELSE [value |-> [type |-> "image", data |-> file_path], shown |-> <<>>]

\* MainApplication._validate_input_compatibility
_validate_input_compatibility(self, input_data) ==
  LET model_info == get_model_info(self)
      model_category == lower(Chars(model_info.category))
  IN IF input_data.type = "text" /\ ~Contains(model_category, <<"t","e","x","t">>)
     THEN [value |-> FALSE,
           shown |-> <<Box("showerror", "Error",
                           <<"Current model doesn't support text input. Please select 'Text-to-Image' model.">>)>>]
     ELSE IF input_data.type = "image" /\ ~Contains(model_category, <<"i","m","a","g","e">>)
     THEN [value |-> FALSE,
           shown |-> <<Box("showerror", "Error",
                           <<"Current model doesn't support image input. Please select 'Image Classification' model.">>)>>]
     ELSE [value |-> TRUE, shown |-> <<>>]

\* what _process_with_model leaves: the heap, the calls of process_input it
\* made, the box it showed and the dict it displayed
Outcome(heap, calls, shown, output) ==
  [heap |-> heap, calls |-> calls, shown |-> shown, output |-> output]

\* mutant: the current model is used whether it is loaded or not
_process_with_model_NoLoadedCheck(heap, current, input_data, model_number, env) ==
  IF current = 0
  THEN Outcome(heap, <<>>,
               <<Box("showwarning", "Warning", <<"Please load a model first">>)>>, <<>>)
  ELSE LET compatible == _validate_input_compatibility(heap[current], input_data)
           call == Positional(input_data.data)
           r == process_input(heap[current], call, env)
       IN IF ~compatible.value THEN Outcome(heap, <<>>, compatible.shown, <<>>)
          ELSE IF r.raised # "None"
          THEN Outcome([heap EXCEPT ![current] = r.self], <<[call |-> call, r |-> r]>>, <<>>,
                       <<[error |-> r.message, model_name |-> r.self._model_name]>>)
          ELSE Outcome([heap EXCEPT ![current] = r.self], <<[call |-> call, r |-> r]>>, <<>>,
                       <<[model_number |-> model_number, input_type |-> input_data.type,
                          model_name |-> r.self._model_name, result |-> r.value]>>)

\* MainApplication._process_with_model
_process_with_model(heap, current, input_data, model_number, env) ==
  IF current = 0
  THEN Outcome(heap, <<>>,
               <<Box("showwarning", "Warning", <<"Please load a model first">>)>>, <<>>)
  ELSE IF ~heap[current]._is_loaded
  THEN Outcome(heap, <<>>,
               <<Box("showwarning", "Warning", <<"Model is not loaded">>)>>, <<>>)
  ELSE LET compatible == _validate_input_compatibility(heap[current], input_data)
           call == Positional(input_data.data)
           r == process_input(heap[current], call, env)
       IN IF ~compatible.value THEN Outcome(heap, <<>>, compatible.shown, <<>>)
          ELSE IF r.raised # "None"
          THEN Outcome([heap EXCEPT ![current] = r.self], <<[call |-> call, r |-> r]>>, <<>>,
                       <<[error |-> r.message, model_name |-> r.self._model_name]>>)
          ELSE Outcome([heap EXCEPT ![current] = r.self], <<[call |-> call, r |-> r]>>, <<>>,
                       <<[model_number |-> model_number, input_type |-> input_data.type,
                          model_name |-> r.self._model_name, result |-> r.value]>>)

\* InputPanel._process_input
_process_input(heap, current, inp, model_number, env) ==
  LET input_data == _get_input_data(inp)
  IN IF input_data.value.type = "NoneType"
     THEN Outcome(heap, <<>>, input_data.shown, <<>>)
     ELSE _process_with_model(heap, current, input_data.value, model_number, env)

\* --------------------------------------------------- the window's events
\* no box is open: a box is modal, the user reaches the window only when
\* every box is closed
Idle == dialogs = <<>>

Workers == 1..Len(threads)

\* the box shown last, after a handler that showed the boxes in shown
Shown(shown) == IF shown = <<>> THEN messagebox ELSE shown[Len(shown)]

\* the user picks an entry of the (read-only) dropdown
SelectModel(model_type) ==
  /\ Idle
  /\ _selected_model' = model_type
  /\ _load_button' = _on_model_selected(_load_button)
  /\ _info_panel' = _on_model_type_selected(_models, instances, _info_panel, model_type)
  /\ UNCHANGED <<model, _current_model, threads, after_queue, dialogs, messagebox, _input,
                 _output_text>>

\* the user presses the Load button, which reacts unless it is disabled;
\* max loads are started at most
ClickLoad(max) ==
  /\ Idle
  /\ _load_button.state = "normal"
  /\ Len(threads) < max
  /\ \E r \in {_load_model(_selected_model, _load_button, threads)} :
        /\ _load_button' = r.button
        /\ threads' = r.threads
  /\ UNCHANGED <<model, _selected_model, _current_model, after_queue, dialogs, messagebox,
                 _input, _output_text, _info_panel>>

\* the user picks an entry of the Models menu: _load_model_from_menu
MenuLoad(model_type, max) ==
  /\ Idle
  /\ Len(threads) < max
  /\ _selected_model' = model_type
  /\ \E r \in {_load_model(model_type, _load_button, threads)} :
        /\ _load_button' = r.button
        /\ threads' = r.threads
  /\ UNCHANGED <<model, _current_model, after_queue, dialogs, messagebox, _input,
                 _output_text, _info_panel>>

\* worker w runs load_thread in environment env
WorkerRun(w, env) ==
  /\ threads[w].status = "started"
  /\ \E r \in {load_thread(_models, instances, w, threads[w].model_type, env)} :
        /\ instances' = r.heap
        /\ console' = [k \in 1..Len(r.heap) |->
                         IF k <= Len(console) THEN console[k]
                         ELSE load_model(r.created.heap[k], env).printed]
        /\ threads' = [threads EXCEPT ![w].status = r.status, ![w].model = r.created.ref]
        /\ after_queue' = after_queue \o r.posted
        /\ last' =
             IF r.created.raised # "None"
             THEN [op |-> "create_model", self |-> 0, arg |-> threads[w].model_type,
                   before |-> "", raised |-> r.created.raised,
                   message |-> r.created.message, value |-> PyNone, trace |-> <<>>,
                   caught |-> <<>>]
             ELSE LET l == load_model(r.created.heap[r.created.ref], env)
                  IN [op |-> "load_model", self |-> r.created.ref, arg |-> env,
                      before |-> "NotLoaded", raised |-> l.raised, message |-> l.message,
                      value |-> l.value, trace |-> l.trace, caught |-> l.caught]
  /\ UNCHANGED <<_models, _selected_model, _load_button, _current_model, dialogs,
                 messagebox, _input, _output_text, _info_panel>>

\* the main loop runs the callback the panel posted when it was built
ModelChangeCallback ==
  /\ after_queue # <<>>
  /\ Head(after_queue).kind = "_on_model_change"
  /\ after_queue' = Tail(after_queue)
  /\ _info_panel' = _on_model_type_selected(_models, instances, _info_panel,
                                            get_available_models(_models).items[1])
  /\ UNCHANGED <<model, _selected_model, _load_button, _current_model, threads, dialogs,
                 messagebox, _input, _output_text>>

\* the main loop runs a worker's completion callback: _on_load_complete
\* resets the button and opens the "Success" box, where it waits
LoadCompleteCallback ==
  /\ after_queue # <<>>
  /\ Head(after_queue).kind = "_on_load_complete"
  /\ after_queue' = Tail(after_queue)
  /\ \E cb \in {Head(after_queue)} :
       \E r \in {_on_load_complete(instances[cb.model])} :
          /\ _load_button' = r.button
          /\ messagebox' = r.box
          /\ dialogs' = Append(dialogs, [worker |-> cb.worker, model |-> cb.model])
          /\ threads' = [threads EXCEPT ![cb.worker].status = "notifying"]
  /\ UNCHANGED <<model, _selected_model, _current_model, _input, _output_text, _info_panel>>

\* the main loop runs a worker's error callback
LoadErrorCallback ==
  /\ after_queue # <<>>
  /\ Head(after_queue).kind = "_on_load_error"
  /\ after_queue' = Tail(after_queue)
  /\ \E cb \in {Head(after_queue)} :
       \E r \in {load_error_callback(_load_button, <<"error">>)} :
          /\ _load_button' = r.button
          /\ messagebox' = Shown(r.shown)
          /\ threads' = [threads EXCEPT ![cb.worker].status =
                           IF r.raised = "None" THEN "failed" ELSE "lost"]
  /\ UNCHANGED <<model, _selected_model, _current_model, dialogs, _input, _output_text,
                 _info_panel>>

\* the user closes the innermost "Success" box: its _on_load_complete goes
\* on and tells the application, _on_model_loaded
DismissSuccess ==
  /\ dialogs # <<>>
  /\ \E top \in {dialogs[Len(dialogs)]} :
       \E r \in {_on_model_loaded(instances, top.model)} :
          /\ dialogs' = SubSeq(dialogs, 1, Len(dialogs) - 1)
          /\ _current_model' = r._current_model
          /\ _info_panel' = r._info_panel
          /\ threads' = [threads EXCEPT ![top.worker].status = "completed"]
          /\ last' = [op |-> "get_model_info", self |-> top.model, arg |-> PyNone,
                      before |-> LoadState(top.model), raised |-> "None",
                      message |-> <<>>, value |-> r._info_panel[1], trace |-> <<>>,
                      caught |-> <<>>]
  /\ UNCHANGED <<_models, instances, console, _selected_model, _load_button, after_queue,
                 messagebox, _input, _output_text>>

\* the user picks a radio button
SetInputType(value) ==
  /\ Idle
  /\ _input' = [_input EXCEPT !.type = value]
  /\ UNCHANGED <<model, _selected_model, _load_button, _current_model, threads, after_queue,
                 dialogs, messagebox, _output_text, _info_panel>>

\* the user types into the text entry
TypeText(text) ==
  /\ Idle
  /\ _input' = [_input EXCEPT !.text = text]
  /\ UNCHANGED <<model, _selected_model, _load_button, _current_model, threads, after_queue,
                 dialogs, messagebox, _output_text, _info_panel>>

\* InputPanel._browse_file, the user picking filename
BrowseFile(filename) ==
  /\ Idle
  /\ _input' = IF Truthy(filename) THEN [_input EXCEPT !.file_path = filename] ELSE _input
  /\ UNCHANGED <<model, _selected_model, _load_button, _current_model, threads, after_queue,
                 dialogs, messagebox, _output_text, _info_panel>>

\* InputPanel._clear_input
_clear_input(inp) == [inp EXCEPT !.text = Str(<<>>), !.file_path = Str(<<>>)]

ClearInput ==
  /\ Idle
  /\ _input' = _clear_input(_input)
  /\ UNCHANGED <<model, _selected_model, _load_button, _current_model, threads, after_queue,
                 dialogs, messagebox, _output_text, _info_panel>>

\* MainApplication._clear_all
ClearAll ==
  /\ Idle
  /\ _output_text' = <<>>
  /\ _input' = _clear_input(_input)
  /\ messagebox' = Box("showinfo", "Info", <<"All data cleared">>)
  /\ UNCHANGED <<model, _selected_model, _load_button, _current_model, threads, after_queue,
                 dialogs, _info_panel>>

\* the user presses "Run Model 1" or "Run Model 2"
RunModel(model_number, env) ==
  /\ Idle
  /\ \E r \in {_process_input(instances, _current_model, _input, model_number, env)} :
        /\ instances' = r.heap
        /\ messagebox' = Shown(r.shown)
        /\ _output_text' = IF r.output = <<>> THEN _output_text ELSE r.output
        /\ last' =
             IF r.calls = <<>> THEN last
             ELSE [op |-> "process_input", self |-> _current_model,
                   arg |-> r.calls[1].call, before |-> LoadState(_current_model),
                   raised |-> r.calls[1].r.raised, message |-> r.calls[1].r.message,
                   value |-> r.calls[1].r.value, trace |-> r.calls[1].r.trace,
                   caught |-> r.calls[1].r.caught]
  /\ UNCHANGED <<_models, console, _selected_model, _load_button, _current_model, threads,
                 after_queue, dialogs, _input, _info_panel>>

\* Loading: the events of the model selection panel, the workers and the
\* main loop.
NextLoad ==
  \/ \E model_type \in {"Text-to-Image", "Image Classification"} : SelectModel(model_type)
  \/ ClickLoad(MaxLoads)
  \/ \E model_type \in {"Text-to-Image", "Image Classification"} : MenuLoad(model_type, MaxLoads)
  \/ \E w \in Workers, env \in WorkerEnvs : WorkerRun(w, env)
  \/ ModelChangeCallback
  \/ LoadCompleteCallback
  \/ LoadErrorCallback
  \/ DismissSuccess

SpecLoad == Init /\ [][NextLoad]_vars

\* The same, where a started worker runs, the main loop runs every callback
\* handed to it, and the user closes every box.
SpecLoadFair ==
  /\ SpecLoad
  /\ WF_vars(\E w \in Workers, env \in WorkerEnvs : WorkerRun(w, env))
  /\ WF_vars(ModelChangeCallback)
  /\ WF_vars(LoadCompleteCallback)
  /\ WF_vars(LoadErrorCallback)
  /\ WF_vars(DismissSuccess)

\* The window: the user's events, the workers and the main loop, with
\* MaxObjects loads and so as many model objects.
NextGui ==
  \/ \E model_type \in {"Text-to-Image", "Image Classification"} : SelectModel(model_type)
  \/ ClickLoad(MaxObjects)
  \/ \E model_type \in {"Text-to-Image", "Image Classification"} : MenuLoad(model_type, MaxObjects)
  \/ \E w \in Workers, env \in WorkerEnvs : WorkerRun(w, env)
  \/ ModelChangeCallback
  \/ LoadCompleteCallback
  \/ LoadErrorCallback
  \/ DismissSuccess
  \/ \E value \in {"Text", "Image"} : SetInputType(value)
  \/ \E text \in TypedTexts : TypeText(text)
  \/ \E filename \in BrowsedFiles : BrowseFile(filename)
  \/ ClearInput
  \/ ClearAll
  \/ \E model_number \in {1, 2}, env \in RunEnvs : RunModel(model_number, env)

SpecGui == Init /\ [][NextGui]_vars

\* ---------------------------------------------------------------- helpers
IsErrorResult(value) == "error" \in DOMAIN value

\* a responder process_input can call: the class's mock or its real pipeline
Usable(self) ==
  IF self.class = "TextClassificationModel"
  THEN self._pipeline \in {MockSentiment, RealSentiment}
  ELSE self._pipeline \in {MockImage, RealImage}

TypeOK ==
  /\ _models = ModelRegistry
  /\ Len(console) = Len(instances)
  /\ \A i \in Refs : instances[i]._is_loaded \in BOOLEAN

\* ------------------------------------------------------------------ claims
LoadStates == {"NotLoaded", "Loaded", "FailedToLoad"}

NotLoadedResult == [error |-> <<"Model not loaded">>]

\* the object behind the receiver of the last call
Receiver == instances[last.self]

\* C1: process_input returns a result without an "error" key only when the
\* receiver's load state is Loaded at the time of the call, and every
\* object's load state is one of NotLoaded, Loaded, FailedToLoad.
C1_NonErrorOnlyWhenLoaded ==
  [][ /\ \A i \in Refs : LoadState(i) \in LoadStates /\ instances[i]._is_loaded \in BOOLEAN
      /\ (last'.op = "process_input" /\ last'.raised = "None"
            /\ ~IsErrorResult(last'.value))
         => LoadState(last'.self) = "Loaded" ]_vars

C1_Witness ==
  /\ last.op = "process_input"
  /\ last.raised = "None"
  /\ ~IsErrorResult(last.value)
  /\ last.before = "Loaded"

\* C2 as stated: a fresh object starts NotLoaded and its load state changes
\* only NotLoaded -> Loaded, NotLoaded -> FailedToLoad, Loaded -> FailedToLoad.
ClaimedTransitions ==
  { <<"NotLoaded", "Loaded">>, <<"NotLoaded", "FailedToLoad">>,
    <<"Loaded", "FailedToLoad">> }

FreshIsNotLoaded ==
  (last'.op = "create_model" /\ last'.raised = "None")
    => LoadStateOf(instances'[last'.self], console'[last'.self]) = "NotLoaded"

C2_OnlyClaimedTransitions ==
  [][ /\ FreshIsNotLoaded
      /\ \A i \in Refs :
           LET after == LoadStateOf(instances'[i], console'[i])
           IN after # LoadState(i) => <<LoadState(i), after>> \in ClaimedTransitions ]_vars

\* C2 (amended): a fresh object starts NotLoaded and its load state changes
\* only NotLoaded -> Loaded, NotLoaded -> FailedToLoad, Loaded -> FailedToLoad
\* and, by a later load_model that succeeds, FailedToLoad -> Loaded; it never
\* returns to NotLoaded, and only load_model changes it.
C2_TransitionsWithRetry ==
  [][ /\ FreshIsNotLoaded
      /\ \A i \in Refs :
           LET after == LoadStateOf(instances'[i], console'[i])
           IN after # LoadState(i) =>
                /\ <<LoadState(i), after>> \in
                     ClaimedTransitions \cup { <<"FailedToLoad", "Loaded">> }
                /\ last'.op = "load_model" /\ last'.self = i ]_vars

C2_Witness ==
  /\ last.op = "load_model"
  /\ last.before = "FailedToLoad"
  /\ LoadState(last.self) = "Loaded"

\* C3: process_input with an empty or falsy input raises ValueError("Input
\* cannot be empty") before any other check, in every load state, and
\* leaves the object unchanged.
C3_FalsyInputRaises ==
  [][ (last'.op = "process_input" /\ ~Truthy(Param(last'.arg)))
      => /\ last'.raised = "ValueError"
         /\ last'.message = <<"Input cannot be empty">>
         /\ last'.trace = <<>>
         /\ instances' = instances
         /\ console' = console ]_vars

\* C4: for a non-empty input, process_input on an object that is not Loaded
\* returns {"error": "Model not loaded"} without raising, without invoking
\* cleaning, validation or a responder, and without changing any state.
C4_NotLoadedSoftError ==
  [][ (last'.op = "process_input" /\ Truthy(Param(last'.arg))
         /\ LoadState(last'.self) # "Loaded")
      => /\ last'.raised = "None"
         /\ last'.value = NotLoadedResult
         /\ last'.trace = <<>>
         /\ instances' = instances
         /\ console' = console
         /\ _models' = _models ]_vars

C4_Witness ==
  /\ last.op = "process_input"
  /\ Truthy(Param(last.arg))
  /\ last.before = "FailedToLoad"
  /\ Usable(Receiver)
  /\ last.value = NotLoadedResult

\* C5: an exception raised in the try block of process_input is caught and
\* returned as an error result carrying its message; process_input lets no
\* exception out but ValueError("Input cannot be empty"), and create_model
\* none but ValueError("Unknown model type: ...").
C5_OnlyUsageErrorsPropagate ==
  /\ last.op = "process_input" =>
       /\ \/ last.raised = "None"
          \/ last.raised = "ValueError" /\ last.message = <<"Input cannot be empty">>
       /\ last.caught # <<>> =>
            /\ last.raised = "None"
            /\ IsErrorResult(last.value)
            /\ last.value.error = <<"Processing failed: ">> \o last.caught
  /\ last.op = "create_model" =>
       \/ last.raised = "None"
       \/ last.raised = "ValueError"
            /\ last.message = <<"Unknown model type: ", last.arg>>

C5_Witness ==
  /\ last.op = "process_input"
  /\ last.before = "Loaded"
  /\ Truthy(Param(last.arg))
  /\ last.caught = ResponderErrorMessage
  /\ last.raised = "None"

\* C6: load_model never raises; when only the construction of the real
\* responder fails the object ends Loaded on its mock responder; when the
\* load path itself fails it ends FailedToLoad; whenever it ends Loaded a
\* usable responder is installed.
C6_LoadNeverRaises ==
  last.op = "load_model" =>
    /\ last.raised = "None"
    /\ (last.arg.sleep = "ok" /\ last.arg.ctor = "raise") =>
         /\ LoadState(last.self) = "Loaded"
         /\ Receiver._pipeline \in {MockSentiment, MockImage}
    /\ (last.arg.sleep = "ok" /\ last.arg.ctor = "ok") =>
         /\ LoadState(last.self) = "Loaded"
         /\ Receiver._pipeline \in {RealSentiment, RealImage}
    /\ last.arg.sleep = "raise" =>
         /\ LoadState(last.self) = "FailedToLoad"
         /\ ~Receiver._is_loaded
    /\ Receiver._is_loaded => Usable(Receiver)

C6_Witness ==
  /\ last.op = "load_model"
  /\ last.arg.sleep = "ok"
  /\ last.arg.ctor = "raise"
  /\ Receiver._is_loaded
  /\ Receiver._pipeline = MockSentiment

\* C7: process_input never changes the load state or the installed
\* responder of its receiver, whatever the input and the outcome.
C7_ProcessKeepsState ==
  [][ last'.op = "process_input"
      => /\ instances' = instances
         /\ console' = console ]_vars

C7_Witness ==
  /\ last.op = "process_input"
  /\ last.before = "Loaded"
  /\ last.caught = OpenErrorMessage
  /\ LoadState(last.self) = "Loaded"

\* C8: load_model on an object that is already Loaded never raises, leaves
\* the load state Loaded or FailedToLoad, and leaves a usable responder
\* whenever the state is Loaded; no object is ever Loaded without one.
C8_ReloadKeepsFlagAndResponder ==
  [][ /\ (last'.op = "load_model" /\ LoadState(last'.self) = "Loaded")
         => /\ last'.raised = "None"
            /\ LoadStateOf(instances'[last'.self], console'[last'.self])
                 \in {"Loaded", "FailedToLoad"}
      /\ \A i \in 1..Len(instances') :
           instances'[i]._is_loaded => Usable(instances'[i]) ]_vars

C8_Witness ==
  /\ last.op = "load_model"
  /\ last.before = "Loaded"
  /\ last.arg.sleep = "raise"
  /\ LoadState(last.self) = "FailedToLoad"

\* C9: create_model raises ValueError for every identifier that is not a
\* key of the registry, constructing no object and leaving the registry
\* unchanged; for a registered identifier it returns an object of the
\* mapped class without raising.
C9_UnknownTypeRaises ==
  [][ last'.op = "create_model" =>
        /\ _models' = _models
        /\ ~HasKey(ModelRegistry, last'.arg) =>
             /\ last'.raised = "ValueError"
             /\ last'.self = 0
             /\ instances' = instances
        /\ HasKey(ModelRegistry, last'.arg) =>
             /\ last'.raised = "None"
             /\ last'.self \in 1..Len(instances')
             /\ instances'[last'.self].class = Lookup(ModelRegistry, last'.arg) ]_vars

C9_Witness ==
  /\ last.op = "create_model"
  /\ last.arg = "nonexistent"
  /\ last.raised = "ValueError"
  /\ Len(instances) > 0

\* C10: create_model returns a fresh object in state NotLoaded; the objects
\* created before are untouched by it, and load_model or process_input on
\* one object never changes another object, also one of the same class.
C10_InstancesIndependent ==
  [][ /\ (last'.op = "create_model" /\ last'.raised = "None") =>
           /\ last'.self = Len(instances) + 1
           /\ Len(instances') = Len(instances) + 1
           /\ LoadStateOf(instances'[last'.self], console'[last'.self]) = "NotLoaded"
           /\ instances'[last'.self]._pipeline = "None"
           /\ \A j \in Refs : instances'[j] = instances[j] /\ console'[j] = console[j]
      /\ last'.op \in {"load_model", "process_input", "get_model_info"} =>
           \A j \in Refs \ {last'.self} :
              instances'[j] = instances[j] /\ console'[j] = console[j] ]_vars

C10_Witness ==
  /\ last.op = "load_model"
  /\ \E i, j \in Refs :
       /\ i # j
       /\ instances[i].class = instances[j].class
       /\ LoadState(i) = "Loaded"
       /\ LoadState(j) = "NotLoaded"
       /\ last.self = i

\* C11: the registry is immutable at runtime: after any sequence of
\* create_model, get_available_models, load_model, process_input and
\* get_model_info calls, and after the caller has mutated a list that
\* get_available_models returned, the registry holds exactly its initial
\* identifier-to-class entries and get_available_models returns the same
\* identifiers in registration order.
RegisteredIdentifiers == <<"Text-to-Image", "Image Classification">>

C11_RegistryImmutable ==
  /\ _models = ModelRegistry
  /\ get_available_models(_models).items = RegisteredIdentifiers
  /\ last.op = "get_available_models" =>
       last.value.items = RegisteredIdentifiers /\ last.raised = "None"

C11_Witness ==
  /\ last.op = "list.pop"
  /\ last.value.items = <<>>
  /\ \E i \in Refs : LoadState(i) = "Loaded"
  /\ get_available_models(_models).items = RegisteredIdentifiers

\* C12: for every registered identifier the object create_model returns
\* reports, in get_model_info()["category"], the fixed category of the class
\* registered under the identifier ("Text Classification" for the text
\* variant, "Image Classification" for the image variant), and the category
\* of an object never changes over its lifetime.
RegisteredCategory(model_type) ==
  IF model_type = "Text-to-Image" THEN "Text Classification" ELSE "Image Classification"

CategoryOfClass(cls) ==
  IF cls = "TextClassificationModel" THEN "Text Classification" ELSE "Image Classification"

C12_CategoryFixed ==
  /\ \A i \in Refs : get_model_info(instances[i]).category = CategoryOfClass(instances[i].class)
  /\ (last.op = "create_model" /\ last.raised = "None") =>
       get_model_info(Receiver).category = RegisteredCategory(last.arg)
  /\ last.op = "get_model_info" =>
       last.value.category = CategoryOfClass(Receiver.class)

C12_Witness ==
  /\ last.op = "get_model_info"
  /\ Receiver.class = "ImageClassificationModel"
  /\ LoadState(last.self) = "FailedToLoad"
  /\ Usable(Receiver)
  /\ last.value.category = "Image Classification"

\* C13 as stated: get_model_info is a read without side effects: it changes
\* no object, console or registry; it returns the fixed name, category and
\* capability metadata of the variant with a status that is "Loaded" exactly
\* when the load state is Loaded; and two calls with no load_model or
\* process_input in between return the same structure.
Metadata(info) ==
  [category |-> info.category, description |-> info.description,
   input_type |-> info.input_type, output_type |-> info.output_type,
   use_case |-> info.use_case]

ModelNameOfClass(cls) ==
  IF cls = "TextClassificationModel"
  THEN <<"distilbert-base-uncased-finetuned-sst-2-english">>
  ELSE <<"google/vit-base-patch16-224">>

InfoKeys ==
  {"name", "category", "status", "description", "input_type", "output_type", "use_case"}

\* what every get_model_info does, whatever the name it reports
ReadsState ==
  last'.op = "get_model_info" =>
    /\ UNCHANGED <<_models, instances, console>>
    /\ last'.raised = "None"
    /\ DOMAIN last'.value = InfoKeys
    /\ Metadata(last'.value) =
         Metadata(get_model_info(Construct(instances[last'.self].class)))
    /\ last'.value.status \in {"Loaded", "Not Loaded"}
    /\ last'.value.status = "Loaded" <=> LoadState(last'.self) = "Loaded"

C13_FixedNameAlways ==
  [][ /\ ReadsState
      /\ last'.op = "get_model_info" =>
           last'.value.name = ModelNameOfClass(instances[last'.self].class)
      /\ \A i \in Refs :
           last'.op \notin {"load_model", "process_input", "create_model"} =>
             get_model_info(instances'[i]) = get_model_info(instances[i]) ]_vars

\* C13 (amended): get_model_info changes no object, console or registry; it
\* returns the object's current name (the variant's fixed name until a
\* non-blank string is assigned through the model_name setter, that string
\* afterwards), the fixed category and capability metadata of the variant,
\* and a status that is "Loaded" exactly when the load state is Loaded; two
\* calls with no load_model, process_input or model_name assignment in
\* between return the same structure.
C13_GetModelInfoIsARead ==
  [][ /\ ReadsState
      /\ last'.op = "get_model_info" =>
           \/ last'.value.name = ModelNameOfClass(instances[last'.self].class)
           \/ Str(last'.value.name) \in NameInputs /\ strip(last'.value.name) # <<>>
      /\ (last'.op = "model_name.setter" /\ last'.raised = "None") =>
           get_model_info(instances'[last'.self]).name = last'.arg.s
      /\ \A i \in Refs :
           \/ last'.op \in {"load_model", "process_input", "create_model"}
           \/ last'.op = "model_name.setter" /\ last'.self = i /\ last'.raised = "None"
           \/ get_model_info(instances'[i]) = get_model_info(instances[i]) ]_vars

C13_Witness ==
  /\ last.op = "get_model_info"
  /\ LoadState(last.self) = "FailedToLoad"
  /\ Receiver._pipeline # "None"
  /\ last.value.status = "Not Loaded"
  /\ last.value.name = <<"v","2">>

\* C14 as stated: for both variants every result without an "error" key
\* that process_input returns on a Loaded object holds the input (as given
\* or cleaned), the result payload and the model's name.
SuccessfulProcess ==
  /\ last.op = "process_input"
  /\ last.raised = "None"
  /\ ~IsErrorResult(last.value)

HasPayloadAndName ==
  /\ {"results", "model_used"} \subseteq DOMAIN last.value
  /\ last.value.model_used = ModelNameOfClass(Receiver.class)
  /\ last.value.model_used = Receiver._model_name
  /\ \E n \in 0..Len(RealLabels) : Len(last.value.results) = n
  /\ \A k \in 1..Len(last.value.results) :
       DOMAIN last.value.results[k] = {"label", "score"}

C14_ResultHasInputPayloadName ==
  SuccessfulProcess =>
    /\ last.before = "Loaded"
    /\ HasPayloadAndName
    /\ "input" \in DOMAIN last.value
    /\ last.value.input \in {Param(last.arg).s, clean_text(Param(last.arg))}

\* C14 (amended): every result without an "error" key that process_input
\* returns on a Loaded object holds the result payload under "results" and
\* the model's name under "model_used"; the text variant adds the cleaned
\* input text under "input"; the image variant adds the metadata of the
\* image (or its error-shaped substitute) under "image_info" and does not
\* hold the input path.
C14_ResultParts ==
  SuccessfulProcess =>
    /\ last.before = "Loaded"
    /\ HasPayloadAndName
    /\ Receiver.class = "TextClassificationModel" =>
         /\ DOMAIN last.value = {"input", "results", "model_used"}
         /\ last.value.input = clean_text(Param(last.arg))
    /\ Receiver.class = "ImageClassificationModel" =>
         /\ DOMAIN last.value = {"image_info", "results", "model_used"}
         /\ \/ DOMAIN last.value.image_info = {"format", "mode", "size"}
            \/ DOMAIN last.value.image_info = {"error"}

C14_Witness ==
  /\ SuccessfulProcess
  /\ Receiver.class = "ImageClassificationModel"
  /\ Receiver._pipeline = RealImage
  /\ Len(last.value.results) = 5
  /\ last.arg = Keyword(Str(<<"d","o","g",".","P","N","G">>))
  /\ "input" \notin DOMAIN last.value

\* C15 as stated: for the Loaded text variant process_input of every input
\* text longer than 1000 characters returns an error result (no exception,
\* no responder call), and every input text of at most 1000 characters is
\* not rejected by the length guard.
TooLongResult == [error |-> <<"Text too long (max 1000 characters)">>]

TextGiven ==
  /\ last.op = "process_input"
  /\ last.before = "Loaded"
  /\ Receiver.class = "TextClassificationModel"
  /\ Param(last.arg).type = "str"

RejectedAsTooLong ==
  /\ last.raised = "None"
  /\ last.value = TooLongResult
  /\ last.trace = <<"clean_text", "validate_text_length">>

C15_LongInputRejected ==
  TextGiven =>
    /\ Len(Param(last.arg).s) > 1000 => RejectedAsTooLong
    /\ Len(Param(last.arg).s) <= 1000 => last.value # TooLongResult

\* C15 (amended): for the Loaded text variant process_input of every
\* non-empty input text whose cleaned form is longer than 1000 characters
\* returns {"error": "Text too long (max 1000 characters)"} (no exception,
\* no responder call); every non-empty input text whose cleaned form has at
\* most 1000 characters passes the length guard and reaches the responder,
\* also when the text itself is longer than 1000 characters.
C15_CleanedLengthGuard ==
  (TextGiven /\ Truthy(Param(last.arg))) =>
    /\ last.raised = "None"
    /\ last.value = TooLongResult <=> RejectedAsTooLong
    /\ \A lead \in 0..1, over \in 0..1, trail \in 0..1 :
         Param(last.arg) = LongText(lead, 1000 + over, trail) =>
           (over > 0 <=> RejectedAsTooLong)
    /\ Len(Param(last.arg).s) <= 1000 => ~RejectedAsTooLong
    /\ ~RejectedAsTooLong =>
         /\ Len(last.trace) = 3
         /\ last.trace[3] \in {"mock", "responder"}

C15_Witness ==
  /\ TextGiven
  /\ last.arg = Positional(LongText(1, 1000, 1))
  /\ Receiver._pipeline = MockSentiment
  /\ ~IsErrorResult(last.value)
  /\ Len(last.value.input) = 1000

\* Paths given to a Loaded image model.  A path of the family is a
\* directory (none, or Directory), a stem and an ending.
ImageGiven ==
  /\ last.op = "process_input"
  /\ last.before = "Loaded"
  /\ Receiver.class = "ImageClassificationModel"
  /\ Truthy(Param(last.arg))

PathIs(dir, stem, ending) == Param(last.arg) = Str(dir \o stem \o ending)

Directories == {<<>>, Directory}

\* Image.open in process_input was called; it raised when it was the last
\* step of the call
OpenAttempted == Len(last.trace) >= 2 /\ last.trace[2] = "Image.open"

OpenFailed == OpenAttempted /\ Len(last.trace) = 2

OpenFailedResult == [error |-> <<"Processing failed: ">> \o OpenErrorMessage]

\* C16: for the Loaded image variant, process_input of a path with an
\* allow-listed ending whose resource cannot be opened does not fail as a
\* whole: the result is a normal result whose image_info carries the error.
C16_OpenFailureBecomesMetadata ==
  (ImageGiven /\ OpenFailed
     /\ \E dir \in Directories, stem \in Stems, ending \in AllowedEndings :
          PathIs(dir, stem, ending))
  => /\ last.raised = "None"
     /\ ~IsErrorResult(last.value)
     /\ "image_info" \in DOMAIN last.value
     /\ IsErrorResult(last.value.image_info)

\* C17 as stated: for the Loaded image variant on the simulated responder,
\* a path with an allow-listed ending whose file name contains "dog" in any
\* letter case gets a ranked list headed by "golden retriever"; one whose
\* file name contains "cat" gets the two-label cat guess; one with neither
\* gets the generic three-label guess.
CatStems == { <<"C","a","t">>, <<"c","a","t","d","o","g">>, <<"d","o","g","c","a","t">> }

DogStems ==
  { <<"d","o","g">>, <<"D","o","G">>, <<"c","a","t","d","o","g">>, <<"d","o","g","c","a","t">> }

CatGuess ==
  << [label |-> "tabby cat", score |-> 85], [label |-> "domestic cat", score |-> 12] >>

DogGuess ==
  << [label |-> "golden retriever", score |-> 78], [label |-> "labrador", score |-> 15] >>

GenericGuess ==
  << [label |-> "object", score |-> 65], [label |-> "item", score |-> 25],
     [label |-> "thing", score |-> 10] >>

Ranked(guess) ==
  /\ last.raised = "None"
  /\ ~IsErrorResult(last.value)
  /\ last.value.results = guess

C17_DogCatGeneric ==
  (ImageGiven /\ Receiver._pipeline = MockImage) =>
    \A dir \in Directories, stem \in Stems, ending \in AllowedEndings :
      PathIs(dir, stem, ending) =>
        /\ stem \in DogStems =>
             /\ last.raised = "None" /\ ~IsErrorResult(last.value)
             /\ last.value.results[1].label = "golden retriever"
        /\ stem \in CatStems => Ranked(CatGuess)
        /\ stem \notin CatStems \cup DogStems => Ranked(GenericGuess)

\* C17 (amended): for the Loaded image variant on the simulated responder
\* and a path with an allow-listed ending: when the resource cannot be
\* opened the result is the error result "Processing failed: ..." and no
\* list is returned; when it opens, a file name (the part after the last
\* "/") containing "cat" in any letter case gets the cat guess, also when
\* it contains "dog" as well; one containing "dog" and not "cat" gets the
\* dog guess headed by "golden retriever"; one with neither gets the
\* generic three-label guess.
C17_CatBeforeDog ==
  (ImageGiven /\ Receiver._pipeline = MockImage) =>
    \A dir \in Directories, stem \in Stems, ending \in AllowedEndings :
      PathIs(dir, stem, ending) =>
        /\ OpenAttempted
        /\ OpenFailed => last.raised = "None" /\ last.value = OpenFailedResult
        /\ ~OpenFailed =>
             /\ last.trace[Len(last.trace)] = "mock"
             /\ stem \in CatStems => Ranked(CatGuess)
             /\ stem \in DogStems \ CatStems => Ranked(DogGuess)
             /\ stem \notin CatStems \cup DogStems => Ranked(GenericGuess)

C17_Witness ==
  /\ ImageGiven
  /\ Receiver._pipeline = MockImage
  /\ PathIs(<<>>, <<"c","a","t","d","o","g">>, <<".","J","P","E","G">>)
  /\ Ranked(CatGuess)

\* C18: for the Loaded image variant, process_input of every non-empty path
\* that does not end in .jpg .jpeg .png .bmp or .gif (letter case ignored)
\* returns {"error": "Invalid image format"} without raising, without
\* opening the resource and without invoking a responder; every path that
\* ends in one of them, in any letter case, passes the format check.
InvalidFormatResult == [error |-> <<"Invalid image format">>]

C18_FormatAllowList ==
  ImageGiven =>
    \A dir \in Directories, stem \in Stems :
      /\ \A ending \in OtherEndings :
           PathIs(dir, stem, ending) =>
             /\ last.raised = "None"
             /\ last.value = InvalidFormatResult
             /\ last.trace = <<"validate_image_format">>
      /\ \A ending \in AllowedEndings :
           PathIs(dir, stem, ending) =>
             /\ last.raised = "None"
             /\ last.value # InvalidFormatResult
             /\ OpenAttempted

C18_Witness ==
  /\ ImageGiven
  /\ PathIs(<<>>, <<"d","o","g">>, <<".","p","n","g",".","b","a","k">>)
  /\ last.value = InvalidFormatResult
  /\ Receiver._pipeline = RealImage

\* A call of process_input on a Loaded text model that got past the
\* decorator, with its text made of lead, word and trail.
TextProcessed ==
  /\ last.op = "process_input"
  /\ last.before = "Loaded"
  /\ Receiver.class = "TextClassificationModel"
  /\ Len(last.arg.args) = 0 \/ Truthy(Param(last.arg))

TextIs(lead, word, trail) == Param(last.arg) = Str(lead \o word \o trail)

\* C19: for the Loaded text variant on the simulated responder,
\* process_input returns exactly one prediction; its label is "POSITIVE" if
\* and only if the cleaned text contains "good" or "great" in any letter
\* case, and "NEGATIVE" otherwise; its score is 0.95 in both cases.
OnePrediction(label) ==
  /\ last.raised = "None"
  /\ ~IsErrorResult(last.value)
  /\ last.value.results = << [label |-> label, score |-> 95] >>

C19_MockSentiment ==
  (TextProcessed /\ Receiver._pipeline = MockSentiment) =>
    /\ \A lead \in LeadPads, trail \in TrailPads :
         /\ \A word \in PositiveWords : TextIs(lead, word, trail) => OnePrediction("POSITIVE")
         /\ \A word \in OtherWords : TextIs(lead, word, trail) => OnePrediction("NEGATIVE")
    /\ Param(last.arg) = PyNone => OnePrediction("NEGATIVE")
    /\ \E label \in {"POSITIVE", "NEGATIVE"} : OnePrediction(label)

C19_Witness ==
  /\ TextProcessed
  /\ Receiver._pipeline = MockSentiment
  /\ TextIs(<<" ","\n">>, <<"n","o","\t","G","o","O","d","s">>, <<"\n">>)
  /\ OnePrediction("POSITIVE")

\* C20: for the Loaded text variant the "input" field of every result
\* without an "error" key is the cleaned input string: leading and trailing
\* whitespace removed and every newline ("\n") or tab inside replaced by one
\* space, so that it holds no newline or tab and neither starts nor ends
\* with whitespace; cleaning it again returns it unchanged.
Spaced(word) ==
  [k \in 1..Len(word) |-> IF word[k] \in {"\n", "\t"} THEN " " ELSE word[k]]

C20_InputIsCleaned ==
  (TextProcessed /\ Param(last.arg).type = "str") =>
    /\ last.raised = "None"
    /\ ~IsErrorResult(last.value) =>
         LET input == last.value.input
         IN /\ \A lead \in LeadPads, word \in PositiveWords \cup OtherWords,
                  trail \in TrailPads :
                 TextIs(lead, word, trail) => input = Spaced(word)
            /\ \A k \in 1..Len(input) : input[k] \notin {"\n", "\t"}
            /\ Len(input) > 0 =>
                 input[1] \notin Whitespace /\ input[Len(input)] \notin Whitespace
            /\ Len(input) <= Len(Param(last.arg).s)
            /\ clean_text(Str(input)) = input

C20_Witness ==
  /\ TextProcessed
  /\ TextIs(<<"\t">>, <<"g","r","e","\t","a","t">>, <<"\r"," ">>)
  /\ ~IsErrorResult(last.value)
  /\ last.value.input = <<"g","r","e"," ","a","t">>

\* C21: for the Loaded image variant the "results" list of every result
\* without an "error" key has at most 5 entries: when the responder returns
\* a ranked list of more than 5 labels the result holds exactly its first 5
\* in the same order, and when it returns 5 or fewer the list is returned
\* unchanged.  returned is the list the responder of the step handed back
\* in environment env.
FirstFiveOf(returned, results) ==
  /\ Len(results) <= 5
  /\ Len(returned) > 5 =>
       Len(results) = 5 /\ \A k \in 1..5 : results[k] = returned[k]
  /\ Len(returned) <= 5 => results = returned

C21_TopFive ==
  [][ \A env \in RankEnvs :
        ( /\ last'.op = "process_input"
          /\ ProcessInput(last'.self, last'.arg, env)
          /\ last'.raised = "None"
          /\ ~IsErrorResult(last'.value) )
        => /\ LoadState(last'.self) = "Loaded"
           /\ instances[last'.self]._pipeline = RealImage =>
                FirstFiveOf(RealResults(env.n), last'.value.results)
           /\ instances[last'.self]._pipeline = MockImage =>
                \E guess \in {CatGuess, DogGuess, GenericGuess} :
                   FirstFiveOf(guess, last'.value.results) ]_vars

C21_Witness ==
  /\ ImageGiven
  /\ Receiver._pipeline = RealImage
  /\ ~IsErrorResult(last.value)
  /\ Len(last.value.results) = 5
  /\ last.value.results[5] = [label |-> "L5", score |-> 95]
  /\ IsErrorResult(last.value.image_info)

\* ------------------------------------------------------------- the window
\* the callback of worker w is run by the main loop in this step
Delivered(w) ==
  /\ threads[w].status \in {"posted", "raised"}
  /\ threads'[w].status # threads[w].status

\* C22: the window shows the true outcome of every load.  When the main loop
\* delivers a worker's callback, the "Success" box is opened only for an
\* instance that ended in Loaded, and an error box is shown when the
\* instance ended in FailedToLoad or the worker raised; and an instance that
\* becomes the application's current model is Loaded.
C22_TrueOutcomeSurfaced ==
  [][ /\ \A w \in Workers :
           Delivered(w) =>
             IF threads[w].status = "posted" /\ LoadState(threads[w].model) = "Loaded"
             THEN messagebox'.title = "Success"
             ELSE /\ messagebox'.kind = "showerror"
                  /\ dialogs' = dialogs
      /\ (_current_model' # _current_model) => instances'[_current_model']._is_loaded
    ]_vars

\* one of the two callbacks of worker w has run to completion
CallbackCompleted(w) ==
  /\ Len(threads) >= w
  /\ threads[w].status \in {"completed", "failed"}

\* C23: every load that _load_model starts leaves the "Loading..." state.
\* Where workers run, the main loop runs the callbacks handed to it and the
\* user closes the boxes, each started worker leads to one of
\* _on_load_complete and _on_load_error having run to completion, and a
\* button that shows "Loading..." leads to the button being enabled with
\* the text "Load Model".
C23_LoadingEnds ==
  /\ \A w \in 1..MaxLoads : (Len(threads) >= w) ~> CallbackCompleted(w)
  /\ (_load_button.text = "Loading...") ~> (_load_button = ReadyButton)

\* worker w is in flight: started, and its callback not yet run by the
\* main loop
InFlight(w) == threads[w].status \in {"started", "posted", "raised"}

\* with every started load completed, the current model is the instance of
\* the load requested last
LastRequestedIsCurrent ==
  (threads # <<>> /\ \A w \in Workers : threads[w].status = "completed") =>
     _current_model = threads[Len(threads)].model

\* C24: at most one load worker is in flight at a time, so that once every
\* started load has completed the application's current model is the
\* instance of the load requested last.
C24_OneLoadAtATime ==
  /\ Cardinality({w \in Workers : InFlight(w)}) <= 1
  /\ LastRequestedIsCurrent

\* this step called process_input: the call is recorded, or a dict is
\* displayed in the output panel
Called ==
  \/ last' # last /\ last'.op = "process_input"
  \/ _output_text' # _output_text /\ _output_text' # <<>>

\* the input of the selected kind goes with a model of this category
Compatible(category, kind) ==
  IF kind = "Text" THEN Contains(lower(Chars(category)), <<"t","e","x","t">>)
  ELSE Contains(lower(Chars(category)), <<"i","m","a","g","e">>)

\* C25: whatever the user did before, the window calls process_input only
\* on the application's current model, only when there is one and it is
\* loaded, and only when the kind of input goes with the model's category;
\* and picking a model type in the dropdown, without loading, leaves the
\* current model as it is.
C25_RunsOnlyCurrentLoadedCompatible ==
  [][ /\ Called =>
           /\ _current_model # 0
           /\ last'.op = "process_input"
           /\ last'.self = _current_model
           /\ instances[_current_model]._is_loaded
           /\ Compatible(instances[_current_model]._category, _input.type)
      /\ (_selected_model' # _selected_model /\ threads' = threads) =>
           _current_model' = _current_model
    ]_vars

\* a text was run on the current Text model and its result is displayed,
\* while the dropdown, used after the one load, shows the other model type
C25_Witness ==
  /\ _current_model # 0
  /\ instances[_current_model].class = "TextClassificationModel"
  /\ _selected_model = "Image Classification"
  /\ Len(threads) = 1
  /\ last.op = "process_input"
  /\ last.self = _current_model
  /\ _output_text # <<>>
  /\ _input.type = "Text"
  /\ "result" \in DOMAIN _output_text[1]

====
